---------------------------- MODULE Spec2Model ----------------------------
(***************************************************************************)
(* Model of the MQ SEO crawl-job worker (src/unnamed/part_001).            *)
(*                                                                         *)
(* Every worker process executes run(): an endless loop whose body is a    *)
(* sequence of awaited calls.  Each awaited call is one action of the      *)
(* model; workers interleave at the awaits.  The job queue / store behind  *)
(* the supabase RPCs is not part of the repository sources and is modelled *)
(* from the interface table of the specification (section 6).              *)
(*                                                                         *)
(* supabase-js resolves an RPC or table call to {data, error}; a failing   *)
(* call is a returned error object, not a rejected promise.  Every call    *)
(* therefore has the two outcomes "ok" and "error"; what the worker does   *)
(* with a returned error is what the code at the call site does with it.   *)
(***************************************************************************)
EXTENDS Integers, Sequences, FiniteSets, TLC

(***************************************************************************)
(* Bounds of the model.                                                    *)
(***************************************************************************)
NJobs == 2
MaxLoops == 3
MaxTicks == 2
MaxStalls == 1
MaxSegs == 3
MaxParams == 2

(***************************************************************************)
(* Program constants.                                                      *)
(***************************************************************************)
HEARTBEAT_EVERY_MS == 15000
RESCUE_MINUTES == 10
RESCUE_EVERY == 30

W == {"w1", "w2"}
Jobs == 1..NJobs
NoJob == 0

LEASE_MS == RESCUE_MINUTES * 60000
TickMs == HEARTBEAT_EVERY_MS \div 2
\* Date.now() is far beyond one heartbeat interval when a worker starts.
StartNow == 2 * HEARTBEAT_EVERY_MS


(***************************************************************************)
(* fetchHtml: outcomes of axios.get and the structured result built from   *)
(* them.                                                                   *)
(***************************************************************************)
NullStatus == -1
NullStr == "<null>"

\* Documents a server can return, as text.
DocFull == "<title>t</title><meta name='description' content='d'><h1>"
DocNoTitle == "<meta name='description' content='d'><h1>"
DocBare == "<p>x</p>"
Docs == {DocFull, DocNoTitle, DocBare}

Response(status, ctype, isString, data) ==
    [kind |-> "response", status |-> status, ctype |-> ctype,
     isString |-> isString, data |-> data, code |-> "", message |-> ""]

Thrown(code, message) ==
    [kind |-> "throw", status |-> NullStatus, ctype |-> "",
     isString |-> FALSE, data |-> "", code |-> code, message |-> message]

AxiosOutcomes ==
    { Response(200, "text/html; charset=utf-8", TRUE, d) : d \in Docs }
    \cup { Response(200, "Text/HTML", TRUE, DocFull),
           Response(200, "text/html; charset=utf-8", TRUE, ""),
           Response(200, "text/html; charset=utf-8", FALSE, "{}"),
           Response(200, "application/pdf", TRUE, "%PDF"),
           Response(200, "", TRUE, DocFull),
           Response(301, "text/html; charset=utf-8", TRUE, DocBare),
           Response(404, "text/html; charset=utf-8", TRUE, DocBare),
           Response(404, "application/json", FALSE, "{}"),
           Response(500, "text/html; charset=utf-8", TRUE, ""),
           Thrown("ECONNABORTED", "timeout of 15000ms exceeded"),
           Thrown("ENOTFOUND", "getaddrinfo ENOTFOUND example.invalid"),
           Thrown("", "") }

\* String.prototype.toLowerCase on the content-type values above.
ToLowerCase(s) == IF s = "Text/HTML" THEN "text/html" ELSE s

\* contentType.includes("text/html")
IncludesTextHtml(s) == s \in {"text/html", "text/html; charset=utf-8"}

\* Failures of the transport below HTTP, as axios reports them.
TransportFailures ==
    { Thrown("ENOTFOUND", "getaddrinfo ENOTFOUND example.invalid"),
      Thrown("ECONNRESET", "socket hang up"),
      Thrown("CERT_HAS_EXPIRED", "certificate has expired"),
      Thrown("ECONNABORTED", "timeout of 15000ms exceeded"),
      Thrown("ERR_FR_TOO_MANY_REDIRECTS", "Maximum number of redirects exceeded"),
      Thrown("", "") }

\* err?.message || String(err)
ErrText_raw(ax) == ax.message

ErrText(ax) == IF ax.message # "" THEN ax.message ELSE "Error"

Fetched(ok, status, ctype, html, error) ==
    [ok |-> ok, status |-> status, contentType |-> ctype,
     html |-> html, error |-> error]

NoFetch == Fetched(FALSE, NullStatus, NullStr, NullStr, "")

FetchHtml(ax) ==
    IF ax.kind = "throw"
    THEN Fetched(FALSE, NullStatus, NullStr, NullStr,
                 IF ax.code = "ECONNABORTED" THEN "timeout after 15s"
                                             ELSE ErrText(ax))
    ELSE LET contentType == ToLowerCase(ax.ctype) IN
         IF ~IncludesTextHtml(contentType)
         THEN Fetched(TRUE, ax.status, contentType, NullStr, "")
         ELSE Fetched(ax.status >= 200 /\ ax.status < 400, ax.status,
                      contentType,
                      IF ax.isString THEN ax.data ELSE NullStr, "")

\* JavaScript truthiness of fetched.html (null and "" are falsy).
Truthy_nonNull(html) == html # NullStr

Truthy(html) == html # NullStr /\ html # ""

(***************************************************************************)
(* extractSeo on the documents above (the regular expressions applied to   *)
(* each text) and the structural score.                                    *)
(***************************************************************************)
Penalty(flag, p) == IF flag THEN 0 ELSE p
Max(a, b) == IF a >= b THEN a ELSE b
Min(a, b) == IF a <= b THEN a ELSE b

StructuralScore_metaHeavy(hasTitle, hasMeta, hasH1, indexable, canonicalOk) ==
    Max(0, Min(100, 100 - Penalty(hasTitle, 25) - Penalty(hasMeta, 25)
                        - Penalty(hasH1, 15) - Penalty(indexable, 30)
                        - Penalty(canonicalOk, 15)))

StructuralScore(hasTitle, hasMeta, hasH1, indexable, canonicalOk) ==
    Max(0, Min(100, 100 - Penalty(hasTitle, 25) - Penalty(hasMeta, 15)
                        - Penalty(hasH1, 15) - Penalty(indexable, 30)
                        - Penalty(canonicalOk, 15)))

Seo(hasTitle, hasMeta, hasH1, indexable, canonicalOk) ==
    [hasTitle |-> hasTitle, hasMeta |-> hasMeta, hasH1 |-> hasH1,
     indexable |-> indexable, canonicalOk |-> canonicalOk,
     structuralScore |->
        StructuralScore(hasTitle, hasMeta, hasH1, indexable, canonicalOk)]

ExtractSeo(html) ==
    CASE html = DocFull    -> Seo(TRUE, TRUE, TRUE, TRUE, TRUE)
      [] html = DocNoTitle -> Seo(FALSE, TRUE, TRUE, TRUE, TRUE)
      [] OTHER             -> Seo(FALSE, FALSE, FALSE, TRUE, TRUE)

NoSeo == Seo(TRUE, TRUE, TRUE, TRUE, TRUE)

\* A row of scc_actions (the fields that differ between the rows).
ActionRow(type, severity, priority) ==
    [action_type |-> type, severity |-> severity, priority |-> priority]

\* insertBasicActions: the rows pushed, in order.
BasicActions_noH1(s) ==
    (IF ~s.hasTitle THEN <<ActionRow("missing_title", "high", "high")>>
                    ELSE <<>>)
    \o (IF ~s.hasMeta
        THEN <<ActionRow("missing_meta_description", "medium", "medium")>>
        ELSE <<>>)

BasicActions(s) ==
    (IF ~s.hasTitle THEN <<ActionRow("missing_title", "high", "high")>>
                    ELSE <<>>)
    \o (IF ~s.hasMeta
        THEN <<ActionRow("missing_meta_description", "medium", "medium")>>
        ELSE <<>>)
    \o (IF ~s.hasH1 THEN <<ActionRow("missing_h1", "low", "low")>> ELSE <<>>)

\* if (actions.length === 0) return;  otherwise the insert is issued.
InsertIssued(rows) == Len(rows) # 0

(***************************************************************************)
(* normalizeUrl.  The text of a URL is the record of its written parts:    *)
(* the host as written, the path segments between the slashes (an empty    *)
(* last segment is a trailing slash), the names of the query parameters    *)
(* in order (their values are carried along untouched) and the fragment    *)
(* (NullStr: no '#').                                                      *)
(***************************************************************************)
Url(host, path, query, hash) ==
    [host |-> host, path |-> path, query |-> query, hash |-> hash]

Hosts == {"example.com", "Example.COM"}
Segments == {"a", "Page", ""}
ParamNames == {"q", "utm_source", "UTM_Source", "gclid", "GCLID", "fbclid"}
Fragments == {NullStr, "", "frag"}

SeqsUpTo(S, n) == UNION { [1..k -> S] : k \in 0..n }

\* The valid URL strings explored.
Urls ==
    { Url(h, p, q, f) : h \in Hosts,
                        p \in SeqsUpTo(Segments, MaxSegs) \ {<<>>},
                        q \in SeqsUpTo(ParamNames, MaxParams),
                        f \in Fragments }

\* String.prototype.toLowerCase on the host and parameter names above.
HostToLower(h) == IF h = "Example.COM" THEN "example.com" ELSE h

NameToLower(k) ==
    CASE k = "UTM_Source" -> "utm_source"
      [] k = "GCLID"      -> "gclid"
      [] OTHER            -> k

\* k.startsWith("utm_") on the lowercased names above.
StartsWithUtm(k) == k = "utm_source"

\* new URL(url.trim()): the host parser lowercases the host.
ParseUrl(text) == [text EXCEPT !.host = HostToLower(@)]

\* u.searchParams.delete(name): removes the parameters named exactly name.
DeleteParam(query, name) == SelectSeq(query, LAMBDA k : k # name)

\* ["gclid", "fbclid"].forEach(delete); keys whose lowercase starts with utm_
StripTracking(query) ==
    SelectSeq(DeleteParam(DeleteParam(query, "gclid"), "fbclid"),
              LAMBDA k : ~StartsWithUtm(NameToLower(k)))

\* if (pathname !== "/" && pathname.endsWith("/")) pathname = slice(0, -1)
TrimSlash(path) ==
    IF path # <<"">> /\ path[Len(path)] = ""
    THEN SubSeq(path, 1, Len(path) - 1)
    ELSE path

\* normalizeUrl on a valid URL: the written parts of u.toString().
NormalizeUrl(text) ==
    LET u == ParseUrl(text) IN
    Url(HostToLower(u.host), TrimSlash(u.path), StripTracking(u.query),
        NullStr)

\* URL.prototype.toString: the text of the parts.
RECURSIVE Joined(_, _)
Joined(parts, sep) ==
    IF parts = <<>> THEN ""
    ELSE sep \o Head(parts) \o Joined(Tail(parts), sep)

Href(u) ==
    "https://" \o u.host \o Joined(u.path, "/")
    \o (IF u.query = <<>> THEN ""
        ELSE "?" \o Head(u.query) \o "=1"
             \o Joined([i \in 1..(Len(u.query) - 1) |->
                           u.query[i + 1] \o "=1"], "&"))
    \o (IF u.hash = NullStr THEN "" ELSE "#" \o u.hash)

(***************************************************************************)
(* State.                                                                  *)
(***************************************************************************)
VARIABLES
    now,              \* Date.now()
    workers,          \* the worker processes that were started
    faulty,           \* the calls the store answers with an error at times
    web,              \* the outcomes axios.get can have for the seed URL
    doomed,           \* the jobs whose page the store rejects on every attempt
    loopLimit,        \* the number of iterations of run() that are explored
    \* --- the helper functions taken alone ---
    pureFn,           \* the function that was applied ("none": not yet)
    pureIn,           \* its argument
    pureOut,          \* what it returned
    \* --- the queue / store ---
    jobStatus,        \* job -> "queued" | "running" | "completed" | "failed"
    lockedBy,         \* job -> worker holding the claim, or "none"
    leaseAt,          \* job -> time of the last lease renewal
    stage,            \* job -> progress_step of the job's snapshot
    urlq,             \* job -> state of the job's seed URL entry
    \* --- one worker process ---
    pc,               \* worker -> the await it is about to execute
    loopCount,        \* worker -> loopCount of run()
    lastHeartbeatAt,  \* worker -> module variable lastHeartbeatAt
    job,              \* worker -> job of the current iteration
    fetched,          \* worker -> result of fetchHtml
    seo,              \* worker -> result of extractSeo
    \* --- observation ---
    trace,            \* worker -> calls issued in the current iteration
    lastCall,         \* worker -> the last call issued, with its result
    lastSendAt,       \* worker -> time of the last heartbeat RPC (0: none yet)
    sentInClaim,      \* worker -> a heartbeat RPC was sent since the last claim
    shortGap          \* worker -> two heartbeat RPCs less than the interval
                      \*           apart: "none" | "sameClaim" | "acrossClaims"

pureVars == <<pureFn, pureIn, pureOut>>
envVars == <<workers, faulty, web, doomed, loopLimit, pureVars>>
storeVars == <<jobStatus, lockedBy, leaseAt, stage, urlq>>
localVars == <<pc, loopCount, lastHeartbeatAt, job, fetched, seo>>
obsVars == <<trace, lastCall, lastSendAt, sentInClaim, shortGap>>
runVars == <<now, workers, faulty, web, doomed, loopLimit, storeVars,
             localVars, obsVars>>
vars == <<now, envVars, storeVars, localVars, obsVars>>

\* The results a call to the store can have.
RpcResults(op) == IF op \in faulty THEN {"ok", "error"} ELSE {"ok"}

Call(op, arg, res, err) == [op |-> op, arg |-> arg, res |-> res, err |-> err]

\* A call as issued: with the job id it carried.
Issued(c, j) ==
    [op |-> c.op, arg |-> c.arg, res |-> c.res, err |-> c.err, job |-> j]

NoCall == Issued(Call("", "", "", ""), NoJob)

\* The calls whose result decides what run() does next; the trace keeps the
\* result of these only.
ResultKept == {"rescue_stale_jobs", "claim_next_job", "claim_next_url", "fetch",
               "upsert_page", "upsert_page_metrics", "insert_actions"}

Masked(c) == IF c.op \in ResultKept THEN c ELSE [c EXCEPT !.res = "-"]

Log(w, c) ==
    /\ trace' = [trace EXCEPT ![w] = Append(@, Masked(c))]
    /\ lastCall' = [lastCall EXCEPT ![w] = Issued(c, job[w])]

Goto(w, l) == pc' = [pc EXCEPT ![w] = l]


(***************************************************************************)
(* The queue / store behind the RPCs (specification, section 6).           *)
(***************************************************************************)
\* claim_next_job(worker_id): one queued job becomes claimed by the worker.
StoreClaimJob(w, j) ==
    /\ jobStatus' = [jobStatus EXCEPT ![j] = "running"]
    /\ lockedBy' = [lockedBy EXCEPT ![j] = w]
    /\ leaseAt' = [leaseAt EXCEPT ![j] = now]

\* A running job whose lease was not renewed within the lease window.
Stale(j) == jobStatus[j] = "running" /\ now - leaseAt[j] >= LEASE_MS

\* rescue_stale_jobs(minutes): stale jobs and their entries become claimable.
StoreRescue ==
    /\ jobStatus' = [j \in Jobs |-> IF Stale(j) THEN "queued" ELSE jobStatus[j]]
    /\ lockedBy' = [j \in Jobs |-> IF Stale(j) THEN "none" ELSE lockedBy[j]]
    /\ urlq' = [j \in Jobs |-> IF Stale(j) /\ urlq[j] = "claimed"
                               THEN "pending" ELSE urlq[j]]

\* heartbeat(job_id, worker_id): renews the claim lease of the holder.
StoreHeartbeat(w, j) ==
    leaseAt' = [leaseAt EXCEPT ![j] =
                   IF jobStatus[j] = "running" /\ lockedBy[j] = w
                   THEN now ELSE @]

\* start_job(job_id): marks the job running.
StoreStartJob(j) == jobStatus' = [jobStatus EXCEPT ![j] = "running"]

\* enqueue_urls(...): adds the seed entry unless the job already has it.
StoreEnqueue(j) ==
    urlq' = [urlq EXCEPT ![j] = IF @ = "none" THEN "pending" ELSE @]

\* mark_url_result(queue_id, success, ...): records the fetch outcome.
StoreMarkUrl(j, success) ==
    urlq' = [urlq EXCEPT ![j] = IF success THEN "done" ELSE "failed"]

\* complete_job(job_id, success, error): terminal transition.
StoreComplete(j, success) ==
    jobStatus' = [jobStatus EXCEPT ![j] =
                     IF success THEN "completed" ELSE "failed"]

(***************************************************************************)
(* Decisions taken by run() between two awaits.                            *)
(***************************************************************************)
\* if (loopCount % 30 === 1)
RescueDue_zero(n) == n % RESCUE_EVERY = 0

RescueDue(n) == n % RESCUE_EVERY = 1

\* heartbeat(): if (now - lastHeartbeatAt < HEARTBEAT_EVERY_MS) return;
HeartbeatDue_always(last, t) == TRUE

HeartbeatDue(last, t) == ~(t - last < HEARTBEAT_EVERY_MS)

\* lastHeartbeatAt = 0; // reset heartbeat timer per job
StampOnClaim_keep(last) == last

StampOnClaim(last) == 0

\* if (claimErr) throw claimErr;  if (!q) { complete; continue }
AfterClaimUrl_emptyFails(res) ==
    CASE res = "error" -> "backoff"
      [] res = "none"  -> "failJob"
      [] OTHER         -> "hb6"

AfterClaimUrl(res) ==
    CASE res = "error" -> "backoff"
      [] res = "none"  -> "completeEmpty"
      [] OTHER         -> "hb6"

\* if (!fetched.ok) { mark failed; failJob; continue }
AfterFetch_noMark(f) == IF ~f.ok THEN "failJob" ELSE "hb7"

AfterFetch(f) == IF ~f.ok THEN "markFailed" ELSE "hb7"

\* the statement after failJob(...) in the fetch-failure branch: continue
AfterFailJob_heartbeat == "hb12"

AfterFailJob == "loop"

\* if (fetched.html) { ... }
AfterMarkOk_always(f) == "upsertPage"

AfterMarkOk(f) == IF Truthy(f.html) THEN "upsertPage" ELSE "finalizing"

\* try { await insertBasicActions(...) } catch (e) { log }
AfterInsertActions_fatal(res) == IF res = "error" THEN "backoff" ELSE "hb11"

AfterInsertActions(res) == "hb11"

\* p_error: fetched.error || "fetch failed"
MarkError_raw(f) == f.error

MarkError(f) == IF f.error # "" THEN f.error ELSE "fetch failed"

\* `Fetch failed: ${fetched.error || "unknown"}`
FailMessage(f) ==
    "Fetch failed: " \o (IF f.error # "" THEN f.error ELSE "unknown")

\* failJob: p_error: message || "worker error"
FailJobError(message) == IF message # "" THEN message ELSE "worker error"

\* The statement that follows each `await heartbeat(job.id)` of run().
HbNext_enqueueFirst(w) ==
    [hb1 |-> "start", hb2 |-> "enqueue", hb3 |-> "analyzing",
     hb4 |-> "discovering", hb5 |-> "claimUrl", hb6 |-> "fetch",
     hb7 |-> "markOk", hb8 |-> AfterMarkOk(fetched[w]),
     hb9 |-> "upsertMetrics", hb10 |-> "insertActions",
     hb11 |-> "finalizing", hb12 |-> "complete"]

HbNext(w) ==
    [hb1 |-> "start", hb2 |-> "discovering", hb3 |-> "enqueue",
     hb4 |-> "analyzing", hb5 |-> "claimUrl", hb6 |-> "fetch",
     hb7 |-> "markOk", hb8 |-> AfterMarkOk(fetched[w]),
     hb9 |-> "upsertMetrics", hb10 |-> "insertActions",
     hb11 |-> "finalizing", hb12 |-> "complete"]

HbPcs == {"hb1", "hb2", "hb3", "hb4", "hb5", "hb6", "hb7", "hb8", "hb9",
          "hb10", "hb11", "hb12"}

(***************************************************************************)
(* Initial state: the workers have just been started, every job is queued. *)
(***************************************************************************)
InitStore ==
    /\ jobStatus = [j \in Jobs |-> "queued"]
    /\ lockedBy = [j \in Jobs |-> "none"]
    /\ leaseAt = [j \in Jobs |-> 0]
    /\ stage = [j \in Jobs |-> "none"]
    /\ urlq = [j \in Jobs |-> "none"]

InitWorkers ==
    /\ now = StartNow
    /\ pc = [w \in W |-> "loop"]
    /\ loopCount = [w \in W |-> 0]
    /\ lastHeartbeatAt = [w \in W |-> 0]
    /\ job = [w \in W |-> NoJob]
    /\ fetched = [w \in W |-> NoFetch]
    /\ seo = [w \in W |-> NoSeo]
    /\ trace = [w \in W |-> <<>>]
    /\ lastCall = [w \in W |-> NoCall]
    /\ lastSendAt = [w \in W |-> 0]
    /\ sentInClaim = [w \in W |-> FALSE]
    /\ shortGap = [w \in W |-> "none"]

\* The arguments and results of the helper functions taken alone.
Flags == [hasTitle : BOOLEAN, hasMeta : BOOLEAN, hasH1 : BOOLEAN,
          indexable : BOOLEAN, canonicalOk : BOOLEAN]

NoFlags == [hasTitle |-> TRUE, hasMeta |-> TRUE, hasH1 |-> TRUE,
            indexable |-> TRUE, canonicalOk |-> TRUE]
NoUrl == Url("example.com", <<"">>, <<>>, NullStr)
NoOutcome == Response(200, "", TRUE, "")

Input(kind, seoIn, url, ax) ==
    [kind |-> kind, seo |-> seoIn, url |-> url, ax |-> ax]

NoInput == Input("none", NoFlags, NoUrl, NoOutcome)

NoOutput ==
    [score |-> 0, actions |-> <<>>, inserted |-> FALSE, url |-> NoUrl,
     again |-> NoUrl, fetched |-> NoFetch]

\* No helper function is called on its own.
InitNoCall ==
    /\ pureFn = "none"
    /\ pureIn = NoInput
    /\ pureOut = NoOutput

\* Every call the worker makes to the store.
Ops == {"rescue_stale_jobs", "claim_next_job", "heartbeat", "start_job",
        "set_snapshot_stage", "enqueue_urls", "claim_next_url",
        "mark_url_result", "complete_job", "upsert_page",
        "upsert_page_metrics", "insert_actions"}

\* One worker, any call may fail, any fetch outcome.
Init ==
    /\ workers = {"w1"}
    /\ faulty = Ops
    /\ web = AxiosOutcomes
    /\ doomed = {}
    /\ loopLimit = MaxLoops
    /\ InitStore /\ InitWorkers /\ InitNoCall

(***************************************************************************)
(* run(): one action per awaited call.                                     *)
(***************************************************************************)
\* while (true) { try { loopCount += 1; if (loopCount % 30 === 1) ...
LoopTop(w) ==
    /\ pc[w] = "loop"
    /\ loopCount[w] < loopLimit
    /\ loopCount' = [loopCount EXCEPT ![w] = @ + 1]
    /\ Goto(w, IF RescueDue(loopCount[w] + 1) THEN "rescue" ELSE "claimJob")
    /\ job' = [job EXCEPT ![w] = NoJob]
    /\ fetched' = [fetched EXCEPT ![w] = NoFetch]
    /\ seo' = [seo EXCEPT ![w] = NoSeo]
    /\ trace' = [trace EXCEPT ![w] = <<>>]
    /\ lastCall' = [lastCall EXCEPT ![w] = NoCall]
    /\ UNCHANGED <<now, envVars, storeVars, lastHeartbeatAt,
                   lastSendAt, sentInClaim, shortGap>>

\* await rescueStaleJobs(): an error is logged and swallowed.
RescueStaleJobs(w) ==
    /\ pc[w] = "rescue"
    /\ \E res \in RpcResults("rescue_stale_jobs") :
          /\ IF res = "ok" THEN StoreRescue
                           ELSE UNCHANGED <<jobStatus, lockedBy, urlq>>
          /\ Log(w, Call("rescue_stale_jobs", "", res, ""))
    /\ Goto(w, "claimJob")
    /\ UNCHANGED <<now, envVars, leaseAt, stage, loopCount, lastHeartbeatAt,
                   job, fetched, seo, lastSendAt, sentInClaim, shortGap>>

\* const job = await claimNextJob(); if (!job) {...}; lastHeartbeatAt = 0;
ClaimNextJob(w) ==
    /\ pc[w] = "claimJob"
    /\ \/ /\ "error" \in RpcResults("claim_next_job")
          /\ Log(w, Call("claim_next_job", "", "error", ""))
          /\ Goto(w, "backoff")
          /\ UNCHANGED <<storeVars, job, lastHeartbeatAt, sentInClaim>>
       \/ /\ \A j \in Jobs : jobStatus[j] # "queued"
          /\ Log(w, Call("claim_next_job", "", "none", ""))
          /\ Goto(w, "idle")
          /\ UNCHANGED <<storeVars, job, lastHeartbeatAt, sentInClaim>>
       \/ \E j \in Jobs :
             /\ jobStatus[j] = "queued"
             /\ StoreClaimJob(w, j)
             /\ job' = [job EXCEPT ![w] = j]
             /\ lastHeartbeatAt' = [lastHeartbeatAt EXCEPT ![w] = StampOnClaim(@)]
             /\ sentInClaim' = [sentInClaim EXCEPT ![w] = FALSE]
             /\ Log(w, Call("claim_next_job", "", "job", ""))
             /\ Goto(w, "hb1")
             /\ UNCHANGED <<stage, urlq>>
    /\ UNCHANGED <<now, envVars, loopCount, fetched, seo,
                   lastSendAt, shortGap>>

\* await sleep(2000); continue;
IdleSleep(w) ==
    /\ pc[w] = "idle"
    /\ Goto(w, "loop")
    /\ UNCHANGED <<now, envVars, storeVars, loopCount, lastHeartbeatAt, job,
                   fetched, seo, obsVars>>

\* await heartbeat(job.id): the call returns normally whatever the RPC
\* answered (the error is logged), so run() goes on with its next statement.
AfterHeartbeat_fatal(res, next) == IF res = "error" THEN "backoff" ELSE next

AfterHeartbeat(res, next) == next

Heartbeat(w) ==
    /\ pc[w] \in HbPcs
    /\ IF ~HeartbeatDue(lastHeartbeatAt[w], now)
       THEN /\ Log(w, Call("heartbeat", "", "skipped", ""))
            /\ Goto(w, HbNext(w)[pc[w]])
            /\ UNCHANGED <<leaseAt, lastHeartbeatAt, lastSendAt, sentInClaim,
                           shortGap>>
       ELSE /\ lastHeartbeatAt' = [lastHeartbeatAt EXCEPT ![w] = now]
            /\ \E res \in RpcResults("heartbeat") :
                  /\ IF res = "ok" THEN StoreHeartbeat(w, job[w])
                                   ELSE UNCHANGED leaseAt
                  /\ Log(w, Call("heartbeat", "", res, ""))
                  /\ Goto(w, AfterHeartbeat(res, HbNext(w)[pc[w]]))
            /\ lastSendAt' = [lastSendAt EXCEPT ![w] = now]
            /\ sentInClaim' = [sentInClaim EXCEPT ![w] = TRUE]
            /\ shortGap' = [shortGap EXCEPT ![w] =
                  IF now - lastSendAt[w] >= HEARTBEAT_EVERY_MS
                  THEN @
                  ELSE IF sentInClaim[w] THEN "sameClaim"
                  ELSE IF @ = "none" THEN "acrossClaims" ELSE @]
    /\ UNCHANGED <<now, envVars, jobStatus, lockedBy, stage, urlq, loopCount,
                   job, fetched, seo>>

\* await supabase.rpc("scc_start_crawl_job", ...): the result is not looked at.
StartJob(w) ==
    /\ pc[w] = "start"
    /\ \E res \in RpcResults("start_job") :
          /\ IF res = "ok" THEN StoreStartJob(job[w]) ELSE UNCHANGED jobStatus
          /\ Log(w, Call("start_job", "", res, ""))
    /\ Goto(w, "hb2")
    /\ UNCHANGED <<now, envVars, lockedBy, leaseAt, stage, urlq, loopCount,
                   lastHeartbeatAt, job, fetched, seo, lastSendAt, sentInClaim,
                   shortGap>>

\* setSnapshotStep(snapshot_id, step): update of progress_step; an error is
\* logged and swallowed.
SetSnapshotStep(w, at, step, next) ==
    /\ pc[w] = at
    /\ \E res \in RpcResults("set_snapshot_stage") :
          /\ IF res = "ok" THEN stage' = [stage EXCEPT ![job[w]] = step]
                           ELSE UNCHANGED stage
          /\ Log(w, Call("set_snapshot_stage", step, res, ""))
    /\ Goto(w, next)
    /\ UNCHANGED <<now, envVars, jobStatus, lockedBy, leaseAt, urlq, loopCount,
                   lastHeartbeatAt, job, fetched, seo, lastSendAt, sentInClaim,
                   shortGap>>

SetDiscovering(w) == SetSnapshotStep(w, "discovering", "discovering", "hb3")

SetAnalyzing(w) == SetSnapshotStep(w, "analyzing", "analyzing", "hb5")

SetFinalizing(w) == SetSnapshotStep(w, "finalizing", "finalizing", "hb12")

\* await supabase.rpc("scc_enqueue_urls", ...): the result is not looked at.
EnqueueUrls(w) ==
    /\ pc[w] = "enqueue"
    /\ \E res \in RpcResults("enqueue_urls") :
          /\ IF res = "ok" THEN StoreEnqueue(job[w]) ELSE UNCHANGED urlq
          /\ Log(w, Call("enqueue_urls", "", res, ""))
    /\ Goto(w, "hb4")
    /\ UNCHANGED <<now, envVars, jobStatus, lockedBy, leaseAt, stage,
                   loopCount, lastHeartbeatAt, job, fetched, seo, lastSendAt,
                   sentInClaim, shortGap>>


\* const {data: q, error: claimErr} = await supabase.rpc("scc_claim_next_url")
\* if (claimErr) throw claimErr;  if (!q) ...
ClaimNextUrl(w) ==
    /\ pc[w] = "claimUrl"
    /\ \E res \in RpcResults("claim_next_url") :
          LET out == IF res = "error" THEN "error"
                     ELSE IF urlq[job[w]] = "pending" THEN "entry" ELSE "none"
          IN /\ urlq' = [urlq EXCEPT ![job[w]] =
                            IF out = "entry" THEN "claimed" ELSE @]
             /\ Log(w, Call("claim_next_url", "", out, ""))
             /\ Goto(w, AfterClaimUrl(out))
    /\ UNCHANGED <<now, envVars, jobStatus, lockedBy, leaseAt, stage,
                   loopCount, lastHeartbeatAt, job, fetched, seo, lastSendAt,
                   sentInClaim, shortGap>>

\* await supabase.rpc("scc_complete_crawl_job", {p_success: true}); continue;
CompleteNoUrls(w) ==
    /\ pc[w] = "completeEmpty"
    /\ \E res \in RpcResults("complete_job") :
          /\ IF res = "ok" THEN StoreComplete(job[w], TRUE)
                           ELSE UNCHANGED jobStatus
          /\ Log(w, Call("complete_job", "true", res, ""))
    /\ Goto(w, "loop")
    /\ UNCHANGED <<now, envVars, lockedBy, leaseAt, stage, urlq, loopCount,
                   lastHeartbeatAt, job, fetched, seo, lastSendAt, sentInClaim,
                   shortGap>>

\* const fetched = await fetchHtml(q.url); if (!fetched.ok) ...
Fetch(w) ==
    /\ pc[w] = "fetch"
    /\ \E ax \in web :
          LET f == FetchHtml(ax) IN
          /\ fetched' = [fetched EXCEPT ![w] = f]
          /\ Log(w, Call("fetch", "", IF f.ok THEN "ok" ELSE "fail", ""))
          /\ Goto(w, AfterFetch(f))
    /\ UNCHANGED <<now, envVars, storeVars, loopCount, lastHeartbeatAt, job,
                   seo, lastSendAt, sentInClaim, shortGap>>

\* await supabase.rpc("scc_mark_url_result", {p_success: false, ...})
MarkUrlFailed(w) ==
    /\ pc[w] = "markFailed"
    /\ \E res \in RpcResults("mark_url_result") :
          /\ IF res = "ok" THEN StoreMarkUrl(job[w], FALSE) ELSE UNCHANGED urlq
          /\ Log(w, Call("mark_url_result", "false", res, MarkError(fetched[w])))
    /\ Goto(w, "failJob")
    /\ UNCHANGED <<now, envVars, jobStatus, lockedBy, leaseAt, stage,
                   loopCount, lastHeartbeatAt, job, fetched, seo, lastSendAt,
                   sentInClaim, shortGap>>

\* await failJob(job.id, `Fetch failed: ...`); continue;
FailJob(w) ==
    /\ pc[w] = "failJob"
    /\ \E res \in RpcResults("complete_job") :
          /\ IF res = "ok" THEN StoreComplete(job[w], FALSE)
                           ELSE UNCHANGED jobStatus
          /\ Log(w, Call("complete_job", "false", res,
                   FailJobError(FailMessage(fetched[w]))))
    /\ Goto(w, AfterFailJob)
    /\ UNCHANGED <<now, envVars, lockedBy, leaseAt, stage, urlq, loopCount,
                   lastHeartbeatAt, job, fetched, seo, lastSendAt, sentInClaim,
                   shortGap>>

\* await supabase.rpc("scc_mark_url_result", {p_success: true, ...})
MarkUrlOk(w) ==
    /\ pc[w] = "markOk"
    /\ \E res \in RpcResults("mark_url_result") :
          /\ IF res = "ok" THEN StoreMarkUrl(job[w], TRUE) ELSE UNCHANGED urlq
          /\ Log(w, Call("mark_url_result", "true", res, ""))
    /\ Goto(w, "hb8")
    /\ UNCHANGED <<now, envVars, jobStatus, lockedBy, leaseAt, stage,
                   loopCount, lastHeartbeatAt, job, fetched, seo, lastSendAt,
                   sentInClaim, shortGap>>

\* The results of the pages upsert for a page of job j.
UpsertPageResults(j) ==
    IF j \in doomed THEN {"error"} ELSE RpcResults("upsert_page")

\* const seo = extractSeo(...); const page = await upsertPage(...)
\* upsertPage: if (error) throw error;
UpsertPage(w) ==
    /\ pc[w] = "upsertPage"
    /\ seo' = [seo EXCEPT ![w] = ExtractSeo(fetched[w].html)]
    /\ \E res \in UpsertPageResults(job[w]) :
          /\ Log(w, Call("upsert_page", "", res, ""))
          /\ Goto(w, IF res = "error" THEN "backoff" ELSE "hb9")
    /\ UNCHANGED <<now, envVars, storeVars, loopCount, lastHeartbeatAt, job,
                   fetched, lastSendAt, sentInClaim, shortGap>>

\* await upsertPageMetrics(...): if (error) throw error;
UpsertPageMetrics(w) ==
    /\ pc[w] = "upsertMetrics"
    /\ \E res \in RpcResults("upsert_page_metrics") :
          /\ Log(w, Call("upsert_page_metrics", "", res, ""))
          /\ Goto(w, IF res = "error" THEN "backoff" ELSE "hb10")
    /\ UNCHANGED <<now, envVars, storeVars, loopCount, lastHeartbeatAt, job,
                   fetched, seo, lastSendAt, sentInClaim, shortGap>>

\* try { await insertBasicActions(...) } catch (e) { ... }
\* insertBasicActions: if (actions.length === 0) return; insert; throw on error
InsertBasicActions(w) ==
    /\ pc[w] = "insertActions"
    /\ IF ~InsertIssued(BasicActions(seo[w]))
       THEN Goto(w, "hb11") /\ UNCHANGED <<trace, lastCall>>
       ELSE \E res \in RpcResults("insert_actions") :
               /\ Log(w, Call("insert_actions", "", res, ""))
               /\ Goto(w, AfterInsertActions(res))
    /\ UNCHANGED <<now, envVars, storeVars, loopCount, lastHeartbeatAt, job,
                   fetched, seo, lastSendAt, sentInClaim, shortGap>>

\* await supabase.rpc("scc_complete_crawl_job", {p_success: true}); end of try
CompleteJob(w) ==
    /\ pc[w] = "complete"
    /\ \E res \in RpcResults("complete_job") :
          /\ IF res = "ok" THEN StoreComplete(job[w], TRUE)
                           ELSE UNCHANGED jobStatus
          /\ Log(w, Call("complete_job", "true", res, ""))
    /\ Goto(w, "loop")
    /\ UNCHANGED <<now, envVars, lockedBy, leaseAt, stage, urlq, loopCount,
                   lastHeartbeatAt, job, fetched, seo, lastSendAt, sentInClaim,
                   shortGap>>

\* After the catch block the while (true) loop goes on.
AfterBackoff_halt == "halt"

AfterBackoff == "loop"

\* catch (e) { console.error(...); await sleep(3000); }
Backoff(w) ==
    /\ pc[w] = "backoff"
    /\ Goto(w, AfterBackoff)
    /\ UNCHANGED <<now, envVars, storeVars, loopCount, lastHeartbeatAt, job,
                   fetched, seo, obsVars>>

(***************************************************************************)
(* Time.  An await takes any amount of time: the clock advances between    *)
(* two steps by a fraction of the heartbeat interval, or by a whole lease  *)
(* window (a stalled call or a paused process).                            *)
(***************************************************************************)
Elapsed == now - StartNow

Tick ==
    /\ (Elapsed % LEASE_MS) \div TickMs < MaxTicks
    /\ now' = now + TickMs
    /\ UNCHANGED <<envVars, storeVars, localVars, obsVars>>

Stall ==
    /\ Elapsed \div LEASE_MS < MaxStalls
    /\ now' = now + LEASE_MS
    /\ UNCHANGED <<envVars, storeVars, localVars, obsVars>>

Next ==
    \/ \E w \in workers : LoopTop(w)
    \/ \E w \in workers : RescueStaleJobs(w)
    \/ \E w \in workers : ClaimNextJob(w)
    \/ \E w \in workers : IdleSleep(w)
    \/ \E w \in workers : Heartbeat(w)
    \/ \E w \in workers : StartJob(w)
    \/ \E w \in workers : SetDiscovering(w)
    \/ \E w \in workers : EnqueueUrls(w)
    \/ \E w \in workers : SetAnalyzing(w)
    \/ \E w \in workers : ClaimNextUrl(w)
    \/ \E w \in workers : CompleteNoUrls(w)
    \/ \E w \in workers : Fetch(w)
    \/ \E w \in workers : MarkUrlFailed(w)
    \/ \E w \in workers : FailJob(w)
    \/ \E w \in workers : MarkUrlOk(w)
    \/ \E w \in workers : UpsertPage(w)
    \/ \E w \in workers : UpsertPageMetrics(w)
    \/ \E w \in workers : InsertBasicActions(w)
    \/ \E w \in workers : SetFinalizing(w)
    \/ \E w \in workers : CompleteJob(w)
    \/ \E w \in workers : Backoff(w)

Spec == Init /\ [][Next]_vars

(***************************************************************************)
(* The worker with the clock running: one worker; heartbeats, the enqueue  *)
(* and the page upsert may fail; the fetch succeeds or times out.          *)
(***************************************************************************)
WebSmall ==
    { Response(200, "text/html; charset=utf-8", TRUE, DocNoTitle),
      Thrown("ECONNABORTED", "timeout of 15000ms exceeded") }

InitClock ==
    /\ workers = {"w1"}
    /\ faulty = {"heartbeat", "enqueue_urls", "upsert_page"}
    /\ web = WebSmall
    /\ doomed = {}
    /\ loopLimit = MaxLoops
    /\ InitStore /\ InitWorkers /\ InitNoCall

NextClock == Next \/ Tick

SpecClock == InitClock /\ [][NextClock]_vars

(***************************************************************************)
(* Several workers on one queue, with calls that can stall for a whole     *)
(* lease window; claim_next_url may fail.                                  *)
(***************************************************************************)
InitMulti ==
    /\ workers = W
    /\ faulty = {"claim_next_url"}
    /\ web = WebSmall
    /\ doomed = {}
    /\ loopLimit = MaxLoops
    /\ InitStore /\ InitWorkers /\ InitNoCall

NextMulti == Next \/ Stall

SpecMulti == InitMulti /\ [][NextMulti]_vars

(***************************************************************************)
(* The worker under a fair scheduler: an awaited call settles and run()    *)
(* is resumed.  Some jobs are doomed: every upsert of their page fails.    *)
(* The calls that throw stay reliable for the other jobs.                  *)
(***************************************************************************)
InitLive ==
    /\ workers = {"w1"}
    /\ faulty = {"heartbeat", "enqueue_urls", "insert_actions"}
    /\ web = WebSmall
    /\ doomed \in SUBSET Jobs
    /\ loopLimit = MaxLoops
    /\ InitStore /\ InitWorkers /\ InitNoCall

SpecLive == InitLive /\ [][Next]_vars /\ WF_vars(Next)

(***************************************************************************)
(* The worker over more than one rescue period: idle, successful, failed   *)
(* and errored iterations.                                                 *)
(***************************************************************************)
InitRescue ==
    /\ workers = {"w1"}
    /\ faulty = {"rescue_stale_jobs", "claim_next_job", "enqueue_urls"}
    /\ web = WebSmall
    /\ doomed = {}
    /\ loopLimit = RESCUE_EVERY + MaxLoops
    /\ InitStore /\ InitWorkers /\ InitNoCall

SpecRescue == InitRescue /\ [][Next]_vars

(***************************************************************************)
(* The helper functions taken alone: one call of extractSeo's scoring, of  *)
(* insertBasicActions' row construction, of normalizeUrl (and of           *)
(* normalizeUrl on its result) or of fetchHtml, on any argument.           *)
(***************************************************************************)
PureInputs ==
    { Input("seo", f, NoUrl, NoOutcome) : f \in Flags }
    \cup { Input("url", NoFlags, u, NoOutcome) : u \in Urls }
    \cup { Input("axios", NoFlags, NoUrl, ax) :
               ax \in AxiosOutcomes \cup TransportFailures }

InitPure ==
    /\ workers = {}
    /\ faulty = {}
    /\ web = {}
    /\ doomed = {}
    /\ loopLimit = 0
    /\ InitStore /\ InitWorkers
    /\ pureFn = "none"
    /\ pureIn \in PureInputs
    /\ pureOut = NoOutput

ApplyStructuralScore ==
    /\ pureFn = "none" /\ pureIn.kind = "seo"
    /\ pureFn' = "structuralScore"
    /\ pureOut' = [pureOut EXCEPT !.score =
                      StructuralScore(pureIn.seo.hasTitle, pureIn.seo.hasMeta,
                                      pureIn.seo.hasH1, pureIn.seo.indexable,
                                      pureIn.seo.canonicalOk)]
    /\ UNCHANGED <<pureIn, runVars>>

ApplyBasicActions ==
    /\ pureFn = "none" /\ pureIn.kind = "seo"
    /\ pureFn' = "insertBasicActions"
    /\ pureOut' = [pureOut EXCEPT
                      !.actions = BasicActions(pureIn.seo),
                      !.inserted = InsertIssued(BasicActions(pureIn.seo))]
    /\ UNCHANGED <<pureIn, runVars>>

ApplyNormalizeUrl ==
    /\ pureFn = "none" /\ pureIn.kind = "url"
    /\ pureFn' = "normalizeUrl"
    /\ pureOut' = [pureOut EXCEPT
                      !.url = NormalizeUrl(pureIn.url),
                      !.again = NormalizeUrl(NormalizeUrl(pureIn.url))]
    /\ UNCHANGED <<pureIn, runVars>>

ApplyFetchHtml ==
    /\ pureFn = "none" /\ pureIn.kind = "axios"
    /\ pureFn' = "fetchHtml"
    /\ pureOut' = [pureOut EXCEPT !.fetched = FetchHtml(pureIn.ax)]
    /\ UNCHANGED <<pureIn, runVars>>

NextPure ==
    \/ ApplyStructuralScore
    \/ ApplyBasicActions
    \/ ApplyNormalizeUrl
    \/ ApplyFetchHtml

SpecPure == InitPure /\ [][NextPure]_vars

(***************************************************************************)
(* The worker of src/src/worker.js: it reads the oldest queued job with    *)
(* getNextQueuedJob and starts it afterwards; it sends no heartbeat and    *)
(* calls no rescue.  One action per awaited call of its run().             *)
(***************************************************************************)
hbVars == <<loopCount, lastHeartbeatAt, lastSendAt, sentInClaim, shortGap>>

\* .eq("status", "queued").order("created_at").limit(1): jobs are created
\* in the order of their ids.
OldestQueued ==
    CHOOSE j \in Jobs :
        jobStatus[j] = "queued" /\ \A k \in Jobs : jobStatus[k] = "queued" => j <= k

\* fetchHtml of worker.js: fetch() rejects on a network failure; res.ok is
\* the status range 200..299; res.text() is always a string.
LegacyFetchHtml(ax) ==
    LET contentType == ToLowerCase(ax.ctype) IN
    IF ~IncludesTextHtml(contentType)
    THEN Fetched(TRUE, ax.status, ax.ctype, NullStr, "")
    ELSE Fetched(ax.status >= 200 /\ ax.status < 300, ax.status, ax.ctype,
                 ax.data, "")

\* insertBasicActions of worker.js: rows for the title and the description.
LegacyBasicActions(s) ==
    (IF ~s.hasTitle THEN <<ActionRow("missing_title", "high", "high")>>
                    ELSE <<>>)
    \o (IF ~s.hasMeta
        THEN <<ActionRow("missing_meta_description", "medium", "medium")>>
        ELSE <<>>)

\* const job = await getNextQueuedJob(); if (!job) { sleep; continue }
\* The iteration starts here: the record of the previous one is dropped.
LegacyGetNextQueuedJob(w) ==
    /\ pc[w] = "pick"
    /\ LET res == IF \E j \in Jobs : jobStatus[j] = "queued" THEN "job"
                                                              ELSE "none"
           c == Call("get_next_queued_job", "", res, "")
       IN /\ job' = [job EXCEPT ![w] = IF res = "job" THEN OldestQueued
                                                      ELSE NoJob]
          /\ trace' = [trace EXCEPT ![w] = <<c>>]
          /\ lastCall' = [lastCall EXCEPT ![w] = Issued(c, NoJob)]
          /\ Goto(w, IF res = "job" THEN "pickStart" ELSE "pickSleep")
    /\ fetched' = [fetched EXCEPT ![w] = NoFetch]
    /\ seo' = [seo EXCEPT ![w] = NoSeo]
    /\ UNCHANGED <<now, envVars, storeVars, hbVars>>

\* await sleep(2000); continue;
LegacySleep(w) ==
    /\ pc[w] = "pickSleep"
    /\ Goto(w, "pick")
    /\ UNCHANGED <<now, envVars, storeVars, hbVars, job, fetched, seo,
                   obsVars>>

\* await supabase.rpc("scc_start_crawl_job", { p_job_id: job.id });
LegacyStartJob(w) ==
    /\ pc[w] = "pickStart"
    /\ \E res \in RpcResults("start_job") :
          /\ IF res = "ok" THEN StoreStartJob(job[w]) ELSE UNCHANGED jobStatus
          /\ Log(w, Call("start_job", "", res, ""))
    /\ Goto(w, "pickDiscovering")
    /\ UNCHANGED <<now, envVars, lockedBy, leaseAt, stage, urlq, hbVars, job,
                   fetched, seo>>

\* setSnapshotStep of worker.js: the result of the update is not looked at.
LegacySetSnapshotStep(w, at, step, next) ==
    /\ pc[w] = at
    /\ \E res \in RpcResults("set_snapshot_stage") :
          /\ IF res = "ok" THEN stage' = [stage EXCEPT ![job[w]] = step]
                           ELSE UNCHANGED stage
          /\ Log(w, Call("set_snapshot_stage", step, res, ""))
    /\ Goto(w, next)
    /\ UNCHANGED <<now, envVars, jobStatus, lockedBy, leaseAt, urlq, hbVars,
                   job, fetched, seo>>

LegacySetDiscovering(w) ==
    LegacySetSnapshotStep(w, "pickDiscovering", "discovering", "pickEnqueue")

LegacySetAnalyzing(w) ==
    LegacySetSnapshotStep(w, "pickAnalyzing", "analyzing", "pickClaimUrl")

LegacySetFinalizing(w) ==
    LegacySetSnapshotStep(w, "pickFinalizing", "finalizing", "pickComplete")

\* await supabase.rpc("scc_enqueue_urls", ...)
LegacyEnqueueUrls(w) ==
    /\ pc[w] = "pickEnqueue"
    /\ \E res \in RpcResults("enqueue_urls") :
          /\ IF res = "ok" THEN StoreEnqueue(job[w]) ELSE UNCHANGED urlq
          /\ Log(w, Call("enqueue_urls", "", res, ""))
    /\ Goto(w, "pickAnalyzing")
    /\ UNCHANGED <<now, envVars, jobStatus, lockedBy, leaseAt, stage, hbVars,
                   job, fetched, seo>>

\* scc_claim_next_url: if (claimErr) throw claimErr; if (!q) { complete }
LegacyClaimNextUrl(w) ==
    /\ pc[w] = "pickClaimUrl"
    /\ \E res \in RpcResults("claim_next_url") :
          LET out == IF res = "error" THEN "error"
                     ELSE IF urlq[job[w]] = "pending" THEN "entry" ELSE "none"
          IN /\ urlq' = [urlq EXCEPT ![job[w]] =
                            IF out = "entry" THEN "claimed" ELSE @]
             /\ Log(w, Call("claim_next_url", "", out, ""))
             /\ Goto(w, CASE out = "error" -> "pickBackoff"
                          [] out = "none"  -> "pickCompleteEmpty"
                          [] OTHER         -> "pickFetch")
    /\ UNCHANGED <<now, envVars, jobStatus, lockedBy, leaseAt, stage, hbVars,
                   job, fetched, seo>>

\* complete_job(success = true) of the two places that call it.
LegacyComplete(w, at) ==
    /\ pc[w] = at
    /\ \E res \in RpcResults("complete_job") :
          /\ IF res = "ok" THEN StoreComplete(job[w], TRUE)
                           ELSE UNCHANGED jobStatus
          /\ Log(w, Call("complete_job", "true", res, ""))
    /\ Goto(w, "pick")
    /\ UNCHANGED <<now, envVars, lockedBy, leaseAt, stage, urlq, hbVars, job,
                   fetched, seo>>

LegacyCompleteNoUrls(w) == LegacyComplete(w, "pickCompleteEmpty")

LegacyCompleteJob(w) == LegacyComplete(w, "pickComplete")

\* const fetched = await fetchHtml(q.url): a rejection goes to the catch.
LegacyFetch(w) ==
    /\ pc[w] = "pickFetch"
    /\ \E ax \in web :
          IF ax.kind = "throw"
          THEN /\ Log(w, Call("fetch", "", "fail", ""))
               /\ Goto(w, "pickBackoff")
               /\ UNCHANGED fetched
          ELSE /\ fetched' = [fetched EXCEPT ![w] = LegacyFetchHtml(ax)]
               /\ Log(w, Call("fetch", "", "ok", ""))
               /\ Goto(w, "pickMark")
    /\ UNCHANGED <<now, envVars, storeVars, hbVars, job, seo>>

\* scc_mark_url_result with p_success: true, whatever was fetched.
LegacyMarkUrl(w) ==
    /\ pc[w] = "pickMark"
    /\ \E res \in RpcResults("mark_url_result") :
          /\ IF res = "ok" THEN StoreMarkUrl(job[w], TRUE) ELSE UNCHANGED urlq
          /\ Log(w, Call("mark_url_result", "true", res, ""))
    /\ Goto(w, IF Truthy(fetched[w].html) THEN "pickUpsertPage"
                                          ELSE "pickFinalizing")
    /\ UNCHANGED <<now, envVars, jobStatus, lockedBy, leaseAt, stage, hbVars,
                   job, fetched, seo>>

\* const seo = extractSeo(...); const page = await upsertPage(...)
LegacyUpsertPage(w) ==
    /\ pc[w] = "pickUpsertPage"
    /\ seo' = [seo EXCEPT ![w] = ExtractSeo(fetched[w].html)]
    /\ \E res \in RpcResults("upsert_page") :
          /\ Log(w, Call("upsert_page", "", res, ""))
          /\ Goto(w, IF res = "error" THEN "pickBackoff"
                                      ELSE "pickUpsertMetrics")
    /\ UNCHANGED <<now, envVars, storeVars, hbVars, job, fetched>>

\* await upsertPageMetrics(...): if (error) throw error;
LegacyUpsertPageMetrics(w) ==
    /\ pc[w] = "pickUpsertMetrics"
    /\ \E res \in RpcResults("upsert_page_metrics") :
          /\ Log(w, Call("upsert_page_metrics", "", res, ""))
          /\ Goto(w, IF res = "error" THEN "pickBackoff"
                                      ELSE "pickInsertActions")
    /\ UNCHANGED <<now, envVars, storeVars, hbVars, job, fetched, seo>>

\* await insertBasicActions(...): not inside a try of its own.
LegacyInsertBasicActions(w) ==
    /\ pc[w] = "pickInsertActions"
    /\ IF ~InsertIssued(LegacyBasicActions(seo[w]))
       THEN Goto(w, "pickFinalizing") /\ UNCHANGED <<trace, lastCall>>
       ELSE \E res \in RpcResults("insert_actions") :
               /\ Log(w, Call("insert_actions", "", res, ""))
               /\ Goto(w, IF res = "error" THEN "pickBackoff"
                                           ELSE "pickFinalizing")
    /\ UNCHANGED <<now, envVars, storeVars, hbVars, job, fetched, seo>>

\* catch (e) { console.error(...); await sleep(3000); }
LegacyBackoff(w) ==
    /\ pc[w] = "pickBackoff"
    /\ Goto(w, "pick")
    /\ UNCHANGED <<now, envVars, storeVars, hbVars, job, fetched, seo,
                   obsVars>>

\* Two workers of this kind on one queue; the enqueue and the page upsert
\* may fail, the fetch gives a page, a page without title, or is rejected.
InitLegacy ==
    /\ workers = W
    /\ faulty = {"enqueue_urls", "upsert_page"}
    /\ web = WebSmall \cup {Response(200, "text/html; charset=utf-8", TRUE, DocFull)}
    /\ doomed = {}
    /\ loopLimit = 0
    /\ InitStore /\ InitNoCall
    /\ now = StartNow
    /\ pc = [w \in W |-> "pick"]
    /\ loopCount = [w \in W |-> 0]
    /\ lastHeartbeatAt = [w \in W |-> 0]
    /\ job = [w \in W |-> NoJob]
    /\ fetched = [w \in W |-> NoFetch]
    /\ seo = [w \in W |-> NoSeo]
    /\ trace = [w \in W |-> <<>>]
    /\ lastCall = [w \in W |-> NoCall]
    /\ lastSendAt = [w \in W |-> 0]
    /\ sentInClaim = [w \in W |-> FALSE]
    /\ shortGap = [w \in W |-> "none"]

NextLegacy ==
    \/ \E w \in workers : LegacyGetNextQueuedJob(w)
    \/ \E w \in workers : LegacySleep(w)
    \/ \E w \in workers : LegacyStartJob(w)
    \/ \E w \in workers : LegacySetDiscovering(w)
    \/ \E w \in workers : LegacyEnqueueUrls(w)
    \/ \E w \in workers : LegacySetAnalyzing(w)
    \/ \E w \in workers : LegacyClaimNextUrl(w)
    \/ \E w \in workers : LegacyCompleteNoUrls(w)
    \/ \E w \in workers : LegacyFetch(w)
    \/ \E w \in workers : LegacyMarkUrl(w)
    \/ \E w \in workers : LegacyUpsertPage(w)
    \/ \E w \in workers : LegacyUpsertPageMetrics(w)
    \/ \E w \in workers : LegacyInsertBasicActions(w)
    \/ \E w \in workers : LegacySetFinalizing(w)
    \/ \E w \in workers : LegacyCompleteJob(w)
    \/ \E w \in workers : LegacyBackoff(w)

SpecLegacy == InitLegacy /\ [][NextLegacy]_vars

TypeOK ==
    /\ workers \subseteq W
    /\ faulty \subseteq Ops
    /\ web \subseteq AxiosOutcomes
    /\ doomed \subseteq Jobs
    /\ loopLimit \in Nat
    /\ pureFn \in {"none", "structuralScore", "insertBasicActions",
                  "normalizeUrl", "fetchHtml"}
    /\ pureIn \in PureInputs \cup {NoInput}
    /\ jobStatus \in [Jobs -> {"queued", "running", "completed", "failed"}]
    /\ lockedBy \in [Jobs -> W \cup {"none"}]
    /\ stage \in [Jobs -> {"none", "discovering", "analyzing", "finalizing"}]
    /\ urlq \in [Jobs -> {"none", "pending", "claimed", "done", "failed"}]
    /\ job \in [W -> Jobs \cup {NoJob}]
    /\ loopCount \in [W -> 0..loopLimit]


(***************************************************************************)
(* Reading the calls of the current iteration.                             *)
(***************************************************************************)
Idx(w, op) == {i \in DOMAIN trace[w] : trace[w][i].op = op}

Count(w, op) == Cardinality(Idx(w, op))

Has(w, op, arg) ==
    \E i \in Idx(w, op) : trace[w][i].arg = arg

HasRes(w, op, res) ==
    \E i \in Idx(w, op) : trace[w][i].res = res

\* The calls issued after the (only) call of op.
After(w, op) ==
    LET i == CHOOSE k \in Idx(w, op) : TRUE
    IN SubSeq(trace[w], i + 1, Len(trace[w]))

\* The calls of a sequence that are not heartbeat() invocations.
Steps(t) == SelectSeq(t, LAMBDA c : c.op # "heartbeat")

OpsOf(t) == [i \in DOMAIN t |-> t[i].op]

IsPrefix(a, b) == Len(a) <= Len(b) /\ a = SubSeq(b, 1, Len(a))

\* The iteration of w claimed a job.
ClaimedJob(w) == HasRes(w, "claim_next_job", "job")

\* The iteration of w that claimed a job is over.
Ended(w) == ClaimedJob(w) /\ pc[w] \in {"loop", "backoff"}

\* w is between claiming a job and the end of the iteration for it.
Processing(w) == ClaimedJob(w) /\ pc[w] \notin {"loop", "backoff"}

Persistence == {"upsert_page", "upsert_page_metrics", "insert_actions"}

NoPersistence(w) == \A op \in Persistence : Count(w, op) = 0


(***************************************************************************)
(* Properties.                                                             *)
(***************************************************************************)

\* C1: no job is processed by two workers at once: at no time are two
\* workers both between claiming the same job and ending their loop
\* iteration for it.
C1_NoJobProcessedTwice ==
    \A a \in workers : \A b \in workers :
        (a # b /\ Processing(a) /\ Processing(b)) => job[a] # job[b]

\* C2: for every job a worker claims, exactly one terminal report
\* (complete_job with success true or false) has been issued when the loop
\* iteration is over, on every path through the iteration.
C2_TerminalReportedOnce ==
    \A w \in workers : Ended(w) => Count(w, "complete_job") = 1

StageRank(s) ==
    CASE s = "none"        -> 0
      [] s = "discovering" -> 1
      [] s = "analyzing"   -> 2
      [] s = "finalizing"  -> 3

\* C3: the stage recorded for a job's snapshot only moves forward
\* (discovering < analyzing < finalizing) over the whole life of the job,
\* rescue and re-claim included: no step writes an earlier stage.
C3_StageNeverRegresses ==
    [][\A j \in Jobs : StageRank(stage'[j]) >= StageRank(stage[j])]_vars

\* C4: when claim_next_url returned an entry, mark_url_result has been issued
\* for it by the time the loop iteration is over, whatever the fetch outcome.
C4_UrlResultRecorded ==
    \A w \in workers :
        (Ended(w) /\ HasRes(w, "claim_next_url", "entry"))
            => Count(w, "mark_url_result") >= 1

C4_Witness ==
    \E w \in workers :
        /\ Ended(w)
        /\ HasRes(w, "claim_next_url", "entry")
        /\ fetched[w].error = "timeout after 15s"
        /\ Has(w, "mark_url_result", "false")

\* C5: when the fetch returned ok=false, what follows in the iteration is
\* mark_url_result(success=false, non-empty error), then
\* complete_job(success=false, non-empty error), and nothing else: no
\* persistence, no second fetch; the iteration then ends without backoff, so
\* that the worker goes on to the next claim_next_job.
C5_FetchFailureFailsJob ==
    \A w \in workers :
        HasRes(w, "fetch", "fail") =>
            LET rest == After(w, "fetch") IN
            /\ Count(w, "fetch") = 1
            /\ NoPersistence(w)
            /\ IsPrefix(OpsOf(rest), <<"mark_url_result", "complete_job">>)
            /\ \A i \in DOMAIN rest : rest[i].arg = "false" /\ rest[i].err # ""
            /\ pc[w] = CASE Len(rest) = 0 -> "markFailed"
                         [] Len(rest) = 1 -> "failJob"
                         [] OTHER         -> "loop"

C5_Witness ==
    \E w \in workers :
        /\ Ended(w)
        /\ HasRes(w, "fetch", "fail")
        /\ fetched[w].status = 404
        /\ Has(w, "complete_job", "false")
        /\ pc[w] = "loop"

\* C6: when claim_next_url returned no entry and no error, the worker issues
\* complete_job(success=true), never success=false, and no fetch, no
\* mark_url_result and no persistence call in that iteration.
C6_EmptyCrawlCompletes ==
    \A w \in workers :
        HasRes(w, "claim_next_url", "none") =>
            LET rest == After(w, "claim_next_url") IN
            /\ Count(w, "fetch") = 0
            /\ Count(w, "mark_url_result") = 0
            /\ NoPersistence(w)
            /\ ~Has(w, "complete_job", "false")
            /\ IF pc[w] = "completeEmpty"
               THEN rest = <<>>
               ELSE /\ pc[w] = "loop"
                    /\ rest = <<Call("complete_job", "true", "-", "")>>

C6_Witness ==
    \E w \in workers :
        /\ Ended(w)
        /\ HasRes(w, "claim_next_url", "none")
        /\ Has(w, "complete_job", "true")

\* An upsert of the page or of its metrics returned an error.
UpsertFailed(w) ==
    HasRes(w, "upsert_page", "error") \/ HasRes(w, "upsert_page_metrics", "error")

\* C7: when upsert_page or upsert_page_metrics returned an error, the job
\* ends in failure: it is not reported successful, no actions are inserted
\* and stage finalizing is not set, the worker backs off, and the job has
\* been marked failed (complete_job with success=false and an error).
C7_UpsertErrorFailsJob ==
    \A w \in workers :
        UpsertFailed(w) =>
            /\ pc[w] = "backoff"
            /\ ~Has(w, "complete_job", "true")
            /\ Count(w, "insert_actions") = 0
            /\ ~Has(w, "set_snapshot_stage", "finalizing")
            /\ Has(w, "complete_job", "false")
            /\ jobStatus[job[w]] = "failed"

\* C8: when insert_actions failed after page and metrics were upserted, the
\* error is swallowed: the worker goes on to set stage finalizing and to
\* complete_job(success=true) in the same iteration, without backoff.
C8_ActionErrorSwallowed ==
    \A w \in workers :
        HasRes(w, "insert_actions", "error") =>
            LET rest == Steps(After(w, "insert_actions")) IN
            /\ HasRes(w, "upsert_page", "ok")
            /\ HasRes(w, "upsert_page_metrics", "ok")
            /\ pc[w] \in {"hb11", "finalizing", "hb12", "complete", "loop"}
            /\ IsPrefix(rest, <<Call("set_snapshot_stage", "finalizing", "-", ""),
                                Call("complete_job", "true", "-", "")>>)
            /\ pc[w] = "loop" => Len(rest) = 2

C8_Witness ==
    \E w \in workers :
        /\ Ended(w)
        /\ HasRes(w, "insert_actions", "error")
        /\ Has(w, "complete_job", "true")

\* The fetch returned ok=true without a usable body (html null or empty).
FetchedNoHtml(w) ==
    HasRes(w, "fetch", "ok") /\ fetched[w].ok /\ ~Truthy(fetched[w].html)

\* C9: when the fetch returned ok=true with html=null, the URL entry is
\* recorded as successful, no upsert_page, upsert_page_metrics or
\* insert_actions call is made, stage finalizing is set and the job is
\* reported with complete_job(success=true).
C9_NonHtmlCompletes ==
    \A w \in workers :
        FetchedNoHtml(w) =>
            LET rest == Steps(After(w, "fetch")) IN
            /\ NoPersistence(w)
            /\ pc[w] \in {"hb7", "markOk", "hb8", "finalizing", "hb12",
                          "complete", "loop"}
            /\ IsPrefix(rest, <<Call("mark_url_result", "true", "-", ""),
                                Call("set_snapshot_stage", "finalizing", "-", ""),
                                Call("complete_job", "true", "-", "")>>)
            /\ pc[w] = "loop" => Len(rest) = 3

C9_Witness ==
    \E w \in workers :
        /\ Ended(w)
        /\ FetchedNoHtml(w)
        /\ fetched[w].contentType = "application/pdf"
        /\ fetched[w].html = NullStr
        /\ Has(w, "complete_job", "true")

\* C10 (as stated): of any two heartbeat() calls of one worker less than
\* the interval apart at most one sends a renewal, over every sequence of
\* operations, new claims included.
C10_RateLimitedAlways ==
    \A w \in workers : shortGap[w] = "none"

\* C10 (amended): of any two heartbeat() calls of one worker less than the
\* interval apart, with no new job claimed between them, at most one sends
\* a lease renewal.
C10_RateLimitedWithinClaim ==
    \A w \in workers : shortGap[w] # "sameClaim"

\* Two heartbeat() calls for one claim within the interval, one renewal sent.
C10_Witness ==
    \E w \in workers :
        /\ pc[w] = "discovering"
        /\ Count(w, "heartbeat") = 2
        /\ sentInClaim[w]
        /\ lastSendAt[w] < now
        /\ Elapsed < HEARTBEAT_EVERY_MS


\* w executes `await heartbeat(job.id)` in this step.
HeartbeatStep(w) == pc[w] \in HbPcs /\ pc'[w] # pc[w]

\* w's claim_next_job returns a job in this step.
ClaimStep(w) == pc[w] = "claimJob" /\ pc'[w] = "hb1"

\* C11: a failed heartbeat RPC never interrupts the job: whatever the
\* renewal call answered, run() goes on with the statement that follows the
\* heartbeat; lastHeartbeatAt becomes the time of the call on every send
\* attempt, failed or not, and is left alone when the call is rate-limited.
C11_HeartbeatErrorSwallowed ==
    [][\A w \in workers :
          HeartbeatStep(w) =>
             /\ lastCall'[w].op = "heartbeat"
             /\ pc'[w] = HbNext(w)[pc[w]]
             /\ lastCall'[w].res \in {"ok", "error"}
                   => lastHeartbeatAt'[w] = now
             /\ lastCall'[w].res = "skipped"
                   => lastHeartbeatAt'[w] = lastHeartbeatAt[w]]_vars

\* A heartbeat RPC has just failed and the worker is at the next statement.
C11_Witness ==
    \E w \in workers :
        /\ lastCall[w].op = "heartbeat"
        /\ lastCall[w].res = "error"
        /\ pc[w] = "enqueue"
        /\ lastHeartbeatAt[w] = now

\* C12: the heartbeat timestamp is reset to zero on every successful job
\* claim and on no other event, so the first heartbeat() call after each
\* claim sends a renewal carrying the newly claimed job, however recently a
\* renewal was sent for the previous job.
C12_TimerResetOnClaim ==
    [][\A w \in workers :
          /\ ClaimStep(w) => lastHeartbeatAt'[w] = 0
          /\ (lastHeartbeatAt'[w] = 0 /\ lastHeartbeatAt[w] # 0) => ClaimStep(w)
          /\ (pc[w] = "hb1" /\ pc'[w] # "hb1") =>
                /\ lastCall'[w].op = "heartbeat"
                /\ lastCall'[w].res \in {"ok", "error"}
                /\ lastCall'[w].job = job[w]
                /\ job[w] # NoJob]_vars

\* The first heartbeat after a second claim was sent although the previous
\* renewal is less than one interval old.
C12_Witness ==
    \E w \in workers :
        /\ pc[w] = "start"
        /\ loopCount[w] >= 2
        /\ lastCall[w].op = "heartbeat"
        /\ lastCall[w].res = "ok"
        /\ lastCall[w].job = job[w]
        /\ shortGap[w] = "acrossClaims"

\* The statements of run() that call a queue RPC.
QueueRpcs == {"claim_next_job", "start_job", "enqueue_urls", "claim_next_url",
              "mark_url_result", "complete_job"}

QueueRpcPcs == {"claimJob", "start", "enqueue", "claimUrl", "completeEmpty",
                "markFailed", "failJob", "markOk", "complete"}

\* w executes one of the queue RPC statements in this step.
QueueRpcStep(w) == pc[w] \in QueueRpcPcs /\ pc'[w] # pc[w]

\* C13: an error returned by any queue RPC of an iteration (claim_next_job,
\* start_job, enqueue_urls, claim_next_url, mark_url_result, complete_job)
\* takes the worker to the catch of run(): no further statement of the
\* iteration is executed, the worker backs off, and the store is not touched.
C13_QueueRpcErrorBacksOff ==
    [][\A w \in workers :
          (QueueRpcStep(w) /\ lastCall'[w].res = "error") =>
             /\ lastCall'[w].op \in QueueRpcs
             /\ pc'[w] = "backoff"
             /\ UNCHANGED storeVars]_vars

\* An error was raised (the worker is in the catch of run()) or returned
\* (the last call answered with an error, the fetch failed) in w's iteration.
Erred(w) ==
    \/ pc[w] = "backoff"
    \/ lastCall[w].res \in {"error", "fail"}

\* C14: the loop never halts on a per-job error and one failing job does not
\* block the queue: after an error raised or returned in iteration n the
\* worker eventually makes the claim_next_job attempt of iteration n + 1,
\* and, the scheduler being fair, every queued job whose processing does not
\* always fail is eventually claimed and reported terminal, whatever happens
\* to the jobs whose processing always fails.
C14_LoopGoesOn ==
    /\ \A w \in W : \A n \in 0..MaxLoops :
          (w \in workers /\ Erred(w) /\ loopCount[w] = n /\ n < loopLimit)
             ~> (pc[w] = "claimJob" /\ loopCount[w] = n + 1)
    /\ \A j \in Jobs :
          (j \notin doomed /\ jobStatus[j] = "queued")
             ~> (jobStatus[j] \in {"completed", "failed"})

\* A job whose processing always fails was left behind by the catch of
\* run(), and another job has been claimed and completed after it.
C14_Witness ==
    \E w \in workers : \E j \in doomed : \E k \in Jobs \ doomed :
        /\ jobStatus[j] = "running"
        /\ lockedBy[j] = w
        /\ job[w] = k
        /\ jobStatus[k] = "completed"

\* The iterations of run() that start with a rescue: the first one, then
\* every RESCUE_EVERY-th after it.
RescueIteration(n) ==
    \E k \in 0..(loopLimit \div RESCUE_EVERY) : n = 1 + k * RESCUE_EVERY

\* C15: stale-job rescue is called in the first iteration and then exactly
\* once every 30 iterations, whatever the iterations in between were (idle,
\* successful, failed, errored); an error of the rescue is swallowed: the
\* claim_next_job attempt of that iteration is made all the same.
C15_RescueCadence ==
    \A w \in workers :
        LET n == loopCount[w]
            r == Count(w, "rescue_stale_jobs")
        IN  /\ pc[w] = "rescue" => (RescueIteration(n) /\ r = 0)
            /\ pc[w] # "rescue" => r = (IF RescueIteration(n) THEN 1 ELSE 0)
            /\ (r = 1 /\ pc[w] # "claimJob")
                  => (trace[w][1].op = "rescue_stale_jobs"
                      /\ Count(w, "claim_next_job") = 1)

\* The rescue of the 31st iteration failed and the claim was attempted.
C15_Witness ==
    \E w \in workers :
        /\ loopCount[w] = RESCUE_EVERY + 1
        /\ HasRes(w, "rescue_stale_jobs", "error")
        /\ Count(w, "claim_next_job") = 1

\* C16: for all 32 combinations of the five flags, structuralScore is 100
\* minus 25 if !hasTitle, 15 if !hasMeta, 15 if !hasH1, 30 if !indexable and
\* 15 if !canonicalOk; it lies in [0, 100], is 100 when all five flags are
\* true and exactly 0 when all five are false.
C16_StructuralScore ==
    pureFn = "structuralScore" =>
        LET f == pureIn.seo
            score == pureOut.score
        IN  /\ score = 100 - (IF f.hasTitle THEN 0 ELSE 25)
                           - (IF f.hasMeta THEN 0 ELSE 15)
                           - (IF f.hasH1 THEN 0 ELSE 15)
                           - (IF f.indexable THEN 0 ELSE 30)
                           - (IF f.canonicalOk THEN 0 ELSE 15)
            /\ score \in 0..100
            /\ (\A k \in DOMAIN f : f[k]) => score = 100
            /\ (\A k \in DOMAIN f : ~f[k]) => score = 0

\* The score of a page with none of the five signals.
C16_Witness ==
    /\ pureFn = "structuralScore"
    /\ \A k \in DOMAIN pureIn.seo : ~pureIn.seo[k]
    /\ pureOut.score = 0

\* The rows the claim expects for a flag.
RowsFor(flag, type, level) ==
    IF flag THEN <<>> ELSE <<ActionRow(type, level, level)>>

\* C17: the action generator produces exactly one record per false flag
\* among hasTitle, hasMeta, hasH1 (missing_title high/high,
\* missing_meta_description medium/medium, missing_h1 low/low), none for a
\* true flag, none on account of indexable or canonicalOk, and issues no
\* insert at all when the three flags are true.
C17_BasicActions ==
    pureFn = "insertBasicActions" =>
        LET f == pureIn.seo IN
        /\ pureOut.actions =
              RowsFor(f.hasTitle, "missing_title", "high")
              \o RowsFor(f.hasMeta, "missing_meta_description", "medium")
              \o RowsFor(f.hasH1, "missing_h1", "low")
        /\ (f.hasTitle /\ f.hasMeta /\ f.hasH1) => ~pureOut.inserted
        /\ ~(f.hasTitle /\ f.hasMeta /\ f.hasH1) => pureOut.inserted

\* Only the H1 is missing, and the page is not indexable: one row.
C17_Witness ==
    /\ pureFn = "insertBasicActions"
    /\ pureIn.seo.hasTitle /\ pureIn.seo.hasMeta /\ ~pureIn.seo.hasH1
    /\ ~pureIn.seo.indexable
    /\ pureOut.actions = <<ActionRow("missing_h1", "low", "low")>>
    /\ pureOut.inserted

\* C18: normalizeUrl is idempotent: for every valid URL (any combination of
\* fragment, tracking parameters, host case and one or more trailing slashes
\* on the path) normalizing the result again gives the same string.
C18_NormalizeIdempotent ==
    pureFn = "normalizeUrl" => Href(pureOut.again) = Href(pureOut.url)

\* The parameter names the claim calls tracking parameters, in any case.
IsTracking(k) ==
    \/ NameToLower(k) \in {"gclid", "fbclid"}
    \/ StartsWithUtm(NameToLower(k))

\* C19: the result of normalizeUrl has no fragment, no utm_* parameter and
\* no gclid or fbclid parameter (whatever the letter case of the name), a
\* lowercase host, and a path that does not end in a slash unless it is the
\* root path; the other parameters and the case of the path are preserved.
C19_NormalizedForm ==
    pureFn = "normalizeUrl" =>
        LET i == pureIn.url
            o == pureOut.url
        IN  /\ o.hash = NullStr
            /\ \A n \in 1..Len(o.query) : ~IsTracking(o.query[n])
            /\ o.host = HostToLower(i.host)
            /\ o.path = <<"">> \/ o.path[Len(o.path)] # ""
            /\ o.query = SelectSeq(i.query, LAMBDA k : ~IsTracking(k))
            /\ Len(o.path) <= Len(i.path)
            /\ o.path = SubSeq(i.path, 1, Len(o.path))

\* C20: fetchHtml always returns a structured result; every failure of the
\* transport (DNS, connection reset, TLS, timeout, redirect limit) gives
\* ok = false, status = null, html = null and a non-empty error string, and
\* exceeding the time bound gives an error classified as a timeout.
C20_FetchNeverRaises ==
    pureFn = "fetchHtml" =>
        LET ax == pureIn.ax
            f == pureOut.fetched
        IN  /\ DOMAIN f = {"ok", "status", "contentType", "html", "error"}
            /\ f.ok \in BOOLEAN
            /\ ax.kind = "throw" =>
                  /\ f.ok = FALSE
                  /\ f.status = NullStatus
                  /\ f.html = NullStr
                  /\ f.error \notin {"", NullStr}
            /\ (ax.kind = "throw" /\ ax.code = "ECONNABORTED")
                  => f.error = "timeout after 15s"

\* A request failed with an error that carries no message.
C20_Witness ==
    /\ pureFn = "fetchHtml"
    /\ pureIn.ax = Thrown("", "")
    /\ pureOut.fetched.ok = FALSE
    /\ pureOut.fetched.error = "Error"

\* The calls after which the iteration reaches a stage boundary.
IsBoundary(c) ==
    \/ c.op = "claim_next_job" /\ c.res = "job"
    \/ c.op \in {"start_job", "set_snapshot_stage", "enqueue_urls", "fetch",
                 "mark_url_result", "upsert_page", "upsert_page_metrics",
                 "insert_actions"}

\* C21: within one job iteration heartbeat(job) is invoked after every stage
\* boundary before the next step begins: whatever call follows the claim,
\* start_job, a set_snapshot_stage, the enqueue, the fetch (succeeded or
\* failed), a mark_url_result, upsert_page, upsert_page_metrics or
\* insert_actions, that call is a heartbeat() invocation.
C21_HeartbeatAtEveryBoundary ==
    \A w \in workers :
        \A i \in 1..(Len(trace[w]) - 1) :
            IsBoundary(trace[w][i]) => trace[w][i + 1].op = "heartbeat"

\* The place of a call in the order of the calls made for a claimed job
\* (0: not one of these calls).
OrderRank(c) ==
    CASE c.op = "start_job" -> 1
      [] c.op = "set_snapshot_stage" /\ c.arg = "discovering" -> 2
      [] c.op = "enqueue_urls" -> 3
      [] c.op = "set_snapshot_stage" /\ c.arg = "analyzing" -> 4
      [] c.op = "claim_next_url" -> 5
      [] c.op = "fetch" -> 6
      [] c.op = "mark_url_result" -> 7
      [] c.op = "upsert_page" -> 8
      [] c.op = "upsert_page_metrics" -> 9
      [] c.op = "insert_actions" -> 10
      [] c.op = "set_snapshot_stage" /\ c.arg = "finalizing" -> 11
      [] c.op = "complete_job" /\ c.arg = "true" -> 12
      [] OTHER -> 0

\* The calls of w's iteration other than heartbeat() invocations.
JobCalls(w) == Steps(trace[w])

\* The listed calls of w's iteration occur in the listed order, each once.
InOrder(w) ==
    LET t == JobCalls(w) IN
    \A i \in DOMAIN t : \A k \in DOMAIN t :
        (i < k /\ OrderRank(t[i]) > 0 /\ OrderRank(t[k]) > 0)
            => OrderRank(t[i]) < OrderRank(t[k])

\* The call made just before the k-th call of w's iteration.
CallBefore(w, k) == JobCalls(w)[k - 1]

IsCompleteTrue(c) == c.op = "complete_job" /\ c.arg = "true"

IsFinalizing(c) == c.op = "set_snapshot_stage" /\ c.arg = "finalizing"

Picked(w) == pc[w] \notin {"pick", "pickSleep", "pickBackoff"}

\* C23: in the worker of src/src/worker.js, which reads the oldest queued
\* job and calls start_job afterwards, two workers running concurrently
\* never both pick and process the same job.
C23_LegacyNoDoublePick ==
    \A a \in workers : \A b \in workers :
        (a # b /\ Picked(a) /\ Picked(b)) => job[a] # job[b]

\* The calls that write to a job, its snapshot, its URL entry or its pages.
JobWrites == {"start_job", "set_snapshot_stage", "mark_url_result",
              "upsert_page", "upsert_page_metrics", "insert_actions",
              "complete_job"}

\* w issues a call in this step.
IssueStep(w) == Len(trace'[w]) = Len(trace[w]) + 1

\* complete_job has been issued for job j (where complete_job does not
\* fail, the store holds the terminal status from then on).
Reported(j) == jobStatus[j] \in {"completed", "failed"}

\* C24: job status only moves forward as seen by the workers' own calls:
\* once some worker has issued complete_job for a job, no worker (one whose
\* lease on the job expired and was rescued included) issues start_job,
\* set_snapshot_stage, mark_url_result, a persistence call or another
\* complete_job for that job.
C24_NoCallAfterComplete ==
    [][\A w \in workers :
          (IssueStep(w) /\ lastCall'[w].op \in JobWrites)
             => ~Reported(job[w])]_vars

\* w sends a heartbeat RPC in this step.
HeartbeatSent(w) ==
    /\ IssueStep(w)
    /\ lastCall'[w].op = "heartbeat"
    /\ lastCall'[w].res \in {"ok", "error"}

\* C25: a worker sends heartbeat renewals only for the job it currently
\* holds: every heartbeat RPC carries the id of the job the worker claimed
\* last, and none is sent after the worker has issued complete_job for that
\* job, nor while the worker holds no job (idle poll, backoff).
C25_HeartbeatOnlyForHeldJob ==
    [][\A w \in workers :
          /\ job'[w] # job[w] =>
                \/ ClaimStep(w) /\ lockedBy'[job'[w]] = w
                \/ pc[w] = "loop" /\ job'[w] = NoJob
          /\ HeartbeatSent(w) =>
                /\ job[w] # NoJob
                /\ lastCall'[w].job = job[w]
                /\ ClaimedJob(w)
                /\ Count(w, "complete_job") = 0
                /\ pc[w] \notin {"loop", "rescue", "claimJob", "idle",
                                 "backoff"}]_vars

\* The last heartbeat of a second job, before its complete_job, was sent.
C25_Witness ==
    \E w \in workers :
        /\ pc[w] = "complete"
        /\ loopCount[w] >= 2
        /\ lastCall[w].op = "heartbeat"
        /\ lastCall[w].res = "ok"
        /\ lastCall[w].job = job[w]
        /\ lockedBy[job[w]] = w

\* C26: whenever a worker reports a job with complete_job(success=false),
\* it has made no upsert_page, upsert_page_metrics or insert_actions call
\* for the job in that iteration; conversely these calls are made only in
\* iterations whose fetch returned ok = true with a non-empty html body.
C26_NoRowsForFailedJob ==
    \A w \in workers :
        /\ Has(w, "complete_job", "false") => NoPersistence(w)
        /\ ~NoPersistence(w) =>
              /\ HasRes(w, "fetch", "ok")
              /\ fetched[w].ok
              /\ fetched[w].html \notin {NullStr, ""}
              /\ ~Has(w, "complete_job", "false")

\* Page, metrics and one action row were written for a fetched page without
\* title, and the job was reported successful.
C26_Witness ==
    \E w \in workers :
        /\ pc[w] = "loop"
        /\ fetched[w].ok /\ fetched[w].html = DocNoTitle
        /\ \A op \in Persistence : Count(w, op) = 1
        /\ Has(w, "complete_job", "true")

\* C27: whenever a URL entry was claimed and the job is then reported with
\* complete_job(success=true), the fetch of the URL returned an HTTP status
\* in 200..399; a response with an error status (4xx/5xx), whatever its
\* content type, never leads to the entry being marked successful or to the
\* job being reported successful.
C27_SuccessMeansGoodStatus ==
    \A w \in workers :
        /\ (HasRes(w, "claim_next_url", "entry")
            /\ Has(w, "complete_job", "true"))
              => fetched[w].status \in 200..399
        /\ (Count(w, "fetch") = 1 /\ fetched[w].status >= 400)
              => /\ ~Has(w, "mark_url_result", "true")
                 /\ ~Has(w, "complete_job", "true")

=============================================================================
